---- MODULE Spec2Model ----
(***************************************************************************)
(* The persistent memory engine of microclaw (src/memory/sqlite.rs,        *)
(* vector.rs, embeddings.rs): the record table `memories`, its FTS5 index  *)
(* `memories_fts` kept by triggers, the `embedding_cache` table with LRU   *)
(* eviction, the Mutex<Connection> guard, and the tasks that call the      *)
(* Memory operations concurrently.                                         *)
(*                                                                         *)
(* Conventions.  A string is a sequence of one-character strings.  An f32  *)
(* is its IEEE-754 bit pattern, written as its four bytes, most            *)
(* significant first.  A timestamp is a reading of a non-decreasing clock, *)
(* which advances by any amount between two readings.  Uuid::new_v4 is a   *)
(* counter: every call yields a value never seen before.  A database       *)
(* critical section (lock, statements, unlock, with no .await inside) is   *)
(* one action, enabled when the guard is free.  Storage faults are         *)
(* injected at the statements on the record table; the statements on the   *)
(* cache table are taken to succeed.                                       *)
(***************************************************************************)
EXTENDS Integers, Sequences, FiniteSets, TLC

VARIABLES
    memories,         \* the rows of table memories
    memories_fts,     \* the entries of the FTS5 index: [rowid, key, content]
    embedding_cache,  \* the rows of table embedding_cache
    conn,             \* holder of the Mutex<Connection> guard: 0 = free
    clock,            \* Local::now(): the latest reading
    uuid,             \* number of Uuid::new_v4() values drawn so far
    dims,             \* self.embedder.dimensions()
    cache_max,        \* self.cache_max
    sched,            \* how the callers run: "concurrent", "sequential",
                      \* "recall" (one caller that recalls) or "unused"
    pc,               \* pc[t]: where task t stands in its operation
    frame,            \* frame[t]: arguments and locals of task t's operation
    result,           \* result[t]: what the operation returned (at pc = "ret")
    calls,            \* number of operations invoked so far
    live,             \* history: keys stored and not forgotten since
    recency,          \* history: the texts whose embedding was served from or
                      \* put into the cache, least recently served first
    args,             \* the arguments of a call of a function of vector.rs
    ret               \* what that call returned

vars == <<memories, memories_fts, embedding_cache, conn, clock, uuid, dims,
          cache_max, sched, pc, frame, result, calls, live, recency, args, ret>>

tables == <<memories, memories_fts>>
\* what no operation of the store changes
config == <<dims, cache_max, sched, args, ret>>
\* what a call of a function of vector.rs leaves alone
store == <<memories, memories_fts, embedding_cache, conn, clock, uuid, dims,
           cache_max, sched, pc, frame, result, calls, live, recency>>

----------------------------------------------------------------------------
(* Bounds of the model *)

\* operations invoked in a concurrent run, and in a sequential run
MaxCalls == 2
MaxSeqCalls == 4
\* the largest clock reading of a concurrent run
MaxClock == 1
\* the largest cache_max of a concurrent run
MaxCacheMax == 1
\* the largest limit passed to recall
MaxLimit == 2
\* the largest cache_max of a sequential run
MaxSeqCacheMax == 2
\* the longest result list passed to hybrid_merge
MaxList == 2
\* the longest byte string passed to bytes_to_vec
MaxBytes == 5

Tasks == {1, 2}

----------------------------------------------------------------------------
(* Values *)

None == [some |-> FALSE]
Some(v) == [some |-> TRUE, val |-> v]

Ok(v) == [ok |-> TRUE, val |-> v]
Err(kind) == [ok |-> FALSE, err |-> kind]

Unit == [unit |-> TRUE]
\* Ok values of the operations, tagged with their Rust types
Bool(b) == [bool |-> b]
Usize(n) == [usize |-> n]
Entries(s) == [entries |-> s]

Apple == <<"a", "p", "p", "l", "e">>
Pie == <<"p", "i", "e">>
Banana == <<"b", "a", "n", "a", "n", "a">>
Bread == <<"b", "r", "e", "a", "d">>
Blank == <<" ">>

ApplePie == Apple \o <<" ">> \o Pie
Empty == <<>>
BananaBread == Banana \o <<" ">> \o Bread
Nan == <<"n", "a", "n">>
Underscore == <<"_">>

\* the contents stored and the queries recalled, by kind of run
Contents == CASE sched = "sequential" -> {ApplePie, BananaBread, Banana}
              [] sched = "fair" -> {ApplePie}
              [] OTHER -> {ApplePie, BananaBread}
Queries == CASE sched = "sequential" -> {Banana}
             [] sched = "recall" -> {Banana, BananaBread, Nan, Underscore}
             [] sched = "faulty" -> {Banana, Blank}
             [] sched = "fair" -> {Banana}
             [] OTHER -> {Banana, Blank, Empty}

KeyA == <<"a">>
KeyC == <<"c">>
KeyB == <<"b">>
Keys == {KeyA, KeyB}

\* MemoryCategory: Core | Daily | Conversation | Custom(name)
Core == <<"Core">>
Daily == <<"Daily">>
Conversation == <<"Conversation">>
Custom(name) == <<"Custom", name>>
Categories == {Daily, Custom("core")}

\* f32 bit patterns: 0.0 = 0x00000000, 1.0 = 0x3F800000
F32_0 == <<0, 0, 0, 0>>
F32_1 == <<63, 128, 0, 0>>

\* the dimension of the configured provider, when it is not the Noop one
Dim == 2

----------------------------------------------------------------------------
(* Pure functions *)

SetMax(S) == CHOOSE x \in S : \A y \in S : y <= x

category_to_str(cat) ==
    CASE cat = Core -> "core"
      [] cat = Daily -> "daily"
      [] cat = Conversation -> "conversation"
      [] OTHER -> cat[2]

str_to_category(s) ==
    CASE s = "core" -> Core
      [] s = "daily" -> Daily
      [] s = "conversation" -> Conversation
      [] OTHER -> Custom(s)

\* f32::to_le_bytes: least significant byte first
to_le_bytes(f) == <<f[4], f[3], f[2], f[1]>>

\* (mutant) f32::from_be_bytes
from_be_bytes(b) == <<b[1], b[2], b[3], b[4]>>

\* f32::from_le_bytes
from_le_bytes(b) == <<b[4], b[3], b[2], b[1]>>

RECURSIVE vec_to_bytes(_)
vec_to_bytes(v) ==
    IF v = <<>> THEN <<>> ELSE to_le_bytes(Head(v)) \o vec_to_bytes(Tail(v))

\* chunks_exact(4): a trailing partial chunk is dropped
RECURSIVE bytes_to_vec(_)
bytes_to_vec(bytes) ==
    IF Len(bytes) < 4 THEN <<>>
    ELSE <<from_le_bytes(SubSeq(bytes, 1, 4))>>
             \o bytes_to_vec(SubSeq(bytes, 5, Len(bytes)))

\* (mutant) a digest that does not depend on the text
content_hash_constant(text) == <<"sha256", <<>>>>

\* The lower 8 bytes of SHA-256 as 16 hex digits: a digest, taken to be
\* injective on the few texts of the model.
content_hash(text) == <<"sha256", text>>

\* The embedding a deterministic provider of dimension Dim computes
EmbedVec(text) ==
    [i \in 1 .. Dim |->
        CASE text = ApplePie -> IF i = 1 THEN F32_1 ELSE F32_0
          [] text = BananaBread -> IF i = 2 THEN F32_1 ELSE F32_0
          [] OTHER -> IF i <= 2 THEN F32_1 ELSE F32_0]

\* What embed_one can return: the vector, or an error (network failure,
\* non-2xx status, invalid response, empty batch).  The response is taken
\* as it comes: in a run with faults the endpoint may answer a vector of
\* fewer components than dimensions() reports.
EmbedOutcomes(text) ==
    {Ok(EmbedVec(text)), Err("Embedder")}
        \cup (IF sched = "faulty"
              THEN {Ok(SubSeq(EmbedVec(text), 1, Dim - 1))} ELSE {})

IsWhitespace(ch) == ch = " "

\* str::split_whitespace
RECURSIVE split_whitespace(_)
split_whitespace(s) ==
    IF s = <<>> THEN <<>>
    ELSE IF IsWhitespace(Head(s)) THEN split_whitespace(Tail(s))
    ELSE LET stop == IF \E i \in 1 .. Len(s) : IsWhitespace(s[i])
                     THEN (CHOOSE i \in 1 .. Len(s) :
                              /\ IsWhitespace(s[i])
                              /\ \A j \in 1 .. i - 1 : ~IsWhitespace(s[j])) - 1
                     ELSE Len(s)
         IN <<SubSeq(s, 1, stop)>>
                \o split_whitespace(SubSeq(s, stop + 1, Len(s)))

\* (mutant) query.is_empty(), without the trim
IsEmptyUntrimmed(s) == s = <<>>

\* query.trim().is_empty()
TrimIsEmpty(s) == \A i \in 1 .. Len(s) : IsWhitespace(s[i])

\* `s LIKE pat`: % matches any run of characters, _ any one character, any
\* other character itself (the model's letters are all lower case, so the
\* case folding of LIKE changes nothing)
RECURSIVE LikeMatch(_, _)
LikeMatch(pat, s) ==
    IF pat = <<>> THEN s = <<>>
    ELSE IF Head(pat) = "%"
         THEN \/ LikeMatch(Tail(pat), s)
              \/ s # <<>> /\ LikeMatch(pat, Tail(s))
    ELSE IF Head(pat) = "_"
         THEN s # <<>> /\ LikeMatch(Tail(pat), Tail(s))
    ELSE s # <<>> /\ Head(s) = Head(pat) /\ LikeMatch(Tail(pat), Tail(s))

\* `hay LIKE ?` with the parameter format!("%{w}%")
Like(hay, w) == LikeMatch(<<"%">> \o w \o <<"%">>, hay)

\* The sequences that list the finite set S once each, best score first;
\* the order among equal scores is not determined
Ranked(S, score(_)) ==
    LET n == Cardinality(S)
    IN {f \in [1 .. n -> S] :
            /\ \A i, j \in 1 .. n : i # j => f[i] # f[j]
            /\ \A i, j \in 1 .. n : i < j => score(f[i]) >= score(f[j])}

\* (mutant) a truncate that keeps everything
TruncateNothing(s, n) == s

\* Vec::truncate
Truncate(s, n) == IF Len(s) > n THEN SubSeq(s, 1, n) ELSE s

----------------------------------------------------------------------------
(* Scores.  A score is a number of thousandths; the weights are tenths. *)

\* the defaults of SqliteMemory::new: 0.7 and 0.3
vector_weight == 7
keyword_weight == 3

\* the value of an f32, in units, for the bit patterns of the model
F32Val(f) == IF f = F32_1 THEN 1 ELSE 0

\* the largest r in lo .. hi with r * r <= n
RECURSIVE SqrtBetween(_, _, _)
SqrtBetween(n, lo, hi) ==
    IF lo >= hi THEN lo
    ELSE LET mid == (lo + hi + 1) \div 2
         IN IF mid * mid <= n THEN SqrtBetween(n, mid, hi)
            ELSE SqrtBetween(n, lo, mid - 1)

RECURSIVE Dot(_, _)
Dot(a, b) ==
    IF a = <<>> THEN 0
    ELSE F32Val(Head(a)) * F32Val(Head(b)) + Dot(Tail(a), Tail(b))

\* (mutant) cosine_similarity without the length check: zip stops at the
\* end of the shorter vector
cosine_similarity_zipped(a, b) ==
    LET n == IF Len(a) < Len(b) THEN Len(a) ELSE Len(b)
        x == SubSeq(a, 1, n)
        y == SubSeq(b, 1, n)
        dot == Dot(x, y)
        norms == Dot(x, x) * Dot(y, y)
    IN IF norms = 0 \/ dot <= 0 THEN 0
       ELSE LET raw == SqrtBetween((1000000 * dot * dot) \div norms, 0, 1001)
            IN IF raw > 1000 THEN 1000 ELSE raw

\* cosine_similarity, in thousandths: 0 for different lengths, an empty
\* vector or a vanishing norm; otherwise dot / (|a| |b|) clamped to [0, 1]
cosine_similarity(a, b) ==
    IF Len(a) # Len(b) \/ Len(a) = 0 THEN 0
    ELSE LET dot == Dot(a, b)
             norms == Dot(a, a) * Dot(b, b)
         IN IF norms = 0 THEN 0
            ELSE IF dot <= 0 THEN 0
            ELSE LET raw == SqrtBetween((1000000 * dot * dot) \div norms, 0, 1001)
                 IN IF raw > 1000 THEN 1000 ELSE raw

----------------------------------------------------------------------------
(* The database: statements and triggers *)

FtsEntry(r) == [rowid |-> r.rowid, key |-> r.key, content |-> r.content]

\* TRIGGER memories_ai AFTER INSERT
memories_ai(fts, new) == fts \cup {FtsEntry(new)}

\* TRIGGER memories_ad AFTER DELETE: the FTS5 'delete' command with the old
\* values removes the entry that was indexed with those values
memories_ad(fts, old) == fts \ {FtsEntry(old)}

\* (mutant) an update trigger that does not remove the old entry
memories_au_insert_only(fts, old, new) == fts \cup {FtsEntry(new)}

\* TRIGGER memories_au AFTER UPDATE
memories_au(fts, old, new) == (fts \ {FtsEntry(old)}) \cup {FtsEntry(new)}

\* An implicit rowid: one more than the largest rowid in the table
NextRowid(mem) == IF mem = {} THEN 1 ELSE SetMax({r.rowid : r \in mem}) + 1

\* (mutant) INSERT OR REPLACE: the row is written anew
UpsertRowReplaced(mem, id, key, content, cat, embedding, now) ==
    [rowid |-> NextRowid(mem), id |-> id, key |-> key,
     content |-> content, category |-> cat, embedding |-> embedding,
     created_at |-> now, updated_at |-> now]

\* The row that INSERT INTO memories ... ON CONFLICT(key) DO UPDATE SET
\* content, category, embedding, updated_at = excluded.* leaves for key
UpsertRow(mem, id, key, content, cat, embedding, now) ==
    IF \E r \in mem : r.key = key
    THEN LET old == CHOOSE r \in mem : r.key = key
         IN [old EXCEPT !.content = content, !.category = cat,
                        !.embedding = embedding, !.updated_at = now]
    ELSE [rowid |-> NextRowid(mem), id |-> id, key |-> key,
          content |-> content, category |-> cat, embedding |-> embedding,
          created_at |-> now, updated_at |-> now]

\* (mutant) a plain INSERT on a table without the UNIQUE constraint on key
UpsertInsertOnly(mem, id, key, content, cat, embedding, now) ==
    mem \cup {[rowid |-> NextRowid(mem), id |-> id, key |-> key,
               content |-> content, category |-> cat, embedding |-> embedding,
               created_at |-> now, updated_at |-> now]}

\* The table after that statement
Upsert(mem, id, key, content, cat, embedding, now) ==
    {r \in mem : r.key # key}
        \cup {UpsertRow(mem, id, key, content, cat, embedding, now)}

\* The index after the triggers the statement fires: memories_au on the
\* DO UPDATE path, memories_ai on the insert path
UpsertTriggers(mem, fts, key, new) ==
    IF \E r \in mem : r.key = key
    THEN memories_au(fts, CHOOSE r \in mem : r.key = key, new)
    ELSE memories_ai(fts, new)

\* (mutant) DELETE FROM memories, without the WHERE clause
DeleteEveryRow(mem, key) == {}

\* DELETE FROM memories WHERE key = ?1
DeleteByKey(mem, key) == {r \in mem : r.key # key}

\* memories_ad for every deleted row
RECURSIVE DeleteTriggers(_, _)
DeleteTriggers(fts, olds) ==
    IF olds = {} THEN fts
    ELSE LET old == CHOOSE r \in olds : TRUE
         IN DeleteTriggers(memories_ad(fts, old), olds \ {old})

\* The MemoryEntry built from a row (the caller sets the score)
Entry(r, score) ==
    [id |-> r.id, key |-> r.key, content |-> r.content,
     category |-> str_to_category(r.category), timestamp |-> r.created_at,
     session_id |-> None, score |-> score]

\* get: SELECT ... FROM memories WHERE key = ?1, first row
Get(mem, key) ==
    IF \E r \in mem : r.key = key
    THEN Some(Entry(CHOOSE r \in mem : r.key = key, None))
    ELSE None

\* count: SELECT COUNT(*) FROM memories
Count(mem) == Cardinality(mem)

\* INSERT OR REPLACE INTO embedding_cache
CacheInsertOrReplace(cache, row) ==
    {c \in cache : c.content_hash # row.content_hash} \cup {row}

\* (mutant) a hit that deletes the row it has read
CacheTouchDeletes(cache, hash, now) ==
    {c \in cache : c.content_hash # hash}

\* (mutant) a hit that leaves accessed_at as it is
CacheTouchSkipped(cache, hash, now) == cache

\* UPDATE embedding_cache SET accessed_at = ?1 WHERE content_hash = ?2
CacheTouch(cache, hash, now) ==
    {IF c.content_hash = hash THEN [c EXCEPT !.accessed_at = now] ELSE c :
         c \in cache}

\* (mutant) LIMIT COUNT(*) - ?1 - 1: one row too few is deleted
EvictionOffByOne(cache, max) ==
    LET over == Cardinality(cache) - max - 1
        n == IF over > 0 THEN over ELSE 0
    IN {V \in SUBSET cache :
            /\ Cardinality(V) = n
            /\ \A v \in V : \A c \in cache \ V : v.accessed_at <= c.accessed_at}

\* DELETE ... WHERE content_hash IN (SELECT ... ORDER BY accessed_at ASC
\* LIMIT MAX(0, COUNT(*) - ?1)): the sets of rows the statement may delete
\* (the order among equal accessed_at values is the database's choice)
EvictionChoices(cache, max) ==
    LET over == Cardinality(cache) - max
        n == IF over > 0 THEN over ELSE 0
    IN {V \in SUBSET cache :
            /\ Cardinality(V) = n
            /\ \A v \in V : \A c \in cache \ V : v.accessed_at <= c.accessed_at}

----------------------------------------------------------------------------
(* recall: keyword search, vector search, fusion, hydration, fallback.     *)
(* Where the order of equal scores is the database's or the hash map's     *)
(* choice, an operator yields the set of the sequences it may return.      *)

\* the unicode61 tokenizer, on lower-case letters and blanks; a query word
\* that is no token, such as _, is found in no entry
fts5_tokens(s) == split_whitespace(s)

\* occurrences of token w in the token sequence toks
RECURSIVE Occurrences(_, _)
Occurrences(toks, w) ==
    IF toks = <<>> THEN 0
    ELSE (IF Head(toks) = w THEN 1 ELSE 0) + Occurrences(Tail(toks), w)

\* occurrences of the query's phrases in the indexed columns of entry f
RECURSIVE TermHits(_, _)
TermHits(f, words) ==
    IF words = <<>> THEN 0
    ELSE Occurrences(fts5_tokens(f.key) \o fts5_tokens(f.content), Head(words))
             + TermHits(f, Tail(words))

\* bm25(memories_fts): negative, lower for a better match.  The model ranks
\* by term frequency alone.
bm25(f, words) == 0 - 1000 * TermHits(f, words)

\* memories_fts MATCH '"w1" OR "w2" ...'
fts5_match(f, words) == TermHits(f, words) > 0

\* fts5_search: (id, -bm25) of the matching entries joined to memories by
\* rowid, ORDER BY bm25 LIMIT limit
fts5_search(mem, fts, query, limit) ==
    LET words == split_whitespace(query)
        rows == {<<m.id, 0 - bm25(f, words)>> :
                     <<f, m>> \in {p \in fts \X mem :
                                      /\ p[2].rowid = p[1].rowid
                                      /\ fts5_match(p[1], words)}}
    IN IF words = <<>> THEN {<<>>}
       ELSE {Truncate(s, limit) : s \in Ranked(rows, LAMBDA p : p[2])}

\* vector_search: (id, similarity) of the rows with an embedding and a
\* positive similarity, best first, truncated to limit
vector_search(mem, query_embedding, limit) ==
    LET scored == {<<r.id, cosine_similarity(query_embedding,
                                              bytes_to_vec(r.embedding.val))>> :
                       r \in {m \in mem : m.embedding.some}}
        kept == {p \in scored : p[2] > 0}
    IN {Truncate(s, limit) : s \in Ranked(kept, LAMBDA p : p[2])}

\* the score of the last pair of results that carries id, if any
LastScore(results, id) ==
    IF \E i \in 1 .. Len(results) : results[i][1] = id
    THEN Some(results[SetMax({i \in 1 .. Len(results) : results[i][1] = id})][2])
    ELSE None

UnwrapOr(opt, default) == IF opt.some THEN opt.val ELSE default

\* (mutants) fusions that go wrong: the ids of both lists with the final
\* score final(id), listed by rank and truncated
Misfused(vector_results, keyword_results, limit, final(_), rank(_)) ==
    LET ids == {vector_results[i][1] : i \in 1 .. Len(vector_results)}
                 \cup {keyword_results[i][1] : i \in 1 .. Len(keyword_results)}
        scored == {[id |-> id,
                    vector_score |-> LastScore(vector_results, id),
                    keyword_score |-> LastScore(keyword_results, id),
                    final_score |-> final(id)] : id \in ids}
    IN {Truncate(s, limit) : s \in Ranked(scored, rank)}

\* the keyword score of id over the largest keyword score, in thousandths
NormalizedIn(keyword_results, id) ==
    LET fold == SetMax({0} \cup {keyword_results[i][2] :
                                    i \in 1 .. Len(keyword_results)})
    IN (UnwrapOr(LastScore(keyword_results, id), 0) * 1000)
           \div (IF fold < 1 THEN 1000 ELSE fold)

\* (mutant) a fusion that does not normalise the keyword scores
hybrid_merge_raw(vector_results, keyword_results, vw, kw, limit) ==
    Misfused(vector_results, keyword_results, limit,
             LAMBDA id : (vw * UnwrapOr(LastScore(vector_results, id), 0)
                            + kw * UnwrapOr(LastScore(keyword_results, id), 0))
                             \div 10,
             LAMBDA r : r.final_score)

\* (mutant) a fusion without the sort: the hash map's order
hybrid_merge_unsorted(vector_results, keyword_results, vw, kw, limit) ==
    Misfused(vector_results, keyword_results, limit,
             LAMBDA id : (vw * UnwrapOr(LastScore(vector_results, id), 0)
                            + kw * NormalizedIn(keyword_results, id)) \div 10,
             LAMBDA r : 0)

\* (mutant) a fusion that takes the keyword term off the vector term
hybrid_merge_minus(vector_results, keyword_results, vw, kw, limit) ==
    Misfused(vector_results, keyword_results, limit,
             LAMBDA id : (vw * UnwrapOr(LastScore(vector_results, id), 0)
                            - kw * NormalizedIn(keyword_results, id)) \div 10,
             LAMBDA r : r.final_score)

\* hybrid_merge
hybrid_merge(vector_results, keyword_results, vw, kw, limit) ==
    LET ids == {vector_results[i][1] : i \in 1 .. Len(vector_results)}
                 \cup {keyword_results[i][1] : i \in 1 .. Len(keyword_results)}
        fold == SetMax({0} \cup {keyword_results[i][2] :
                                    i \in 1 .. Len(keyword_results)})
        max_kw == IF fold < 1 THEN 1000 ELSE fold
        normalized(id) ==
            LET ks == LastScore(keyword_results, id)
            IN IF ks.some THEN Some((ks.val * 1000) \div max_kw) ELSE None
        scored == {[id |-> id,
                    vector_score |-> LastScore(vector_results, id),
                    keyword_score |-> normalized(id),
                    final_score |->
                        (vw * UnwrapOr(LastScore(vector_results, id), 0)
                           + kw * UnwrapOr(normalized(id), 0)) \div 10] :
                       id \in ids}
    IN {Truncate(s, limit) : s \in Ranked(scored, LAMBDA r : r.final_score)}

\* (mutant) the keyword results weighted as hybrid_merge weights them
KeywordOnlyWeighted(keyword_results) ==
    [i \in 1 .. Len(keyword_results) |->
        [id |-> keyword_results[i][1],
         vector_score |-> None,
         keyword_score |-> Some(keyword_results[i][2]),
         final_score |-> (keyword_weight * keyword_results[i][2]) \div 10]]

\* recall's merged list when vector_results is empty
KeywordOnly(keyword_results) ==
    [i \in 1 .. Len(keyword_results) |->
        [id |-> keyword_results[i][1],
         vector_score |-> None,
         keyword_score |-> Some(keyword_results[i][2]),
         final_score |-> keyword_results[i][2]]]

\* "Fetch full entries for merged results": ids without a row are skipped
RECURSIVE Hydrate(_, _)
Hydrate(mem, merged) ==
    IF merged = <<>> THEN <<>>
    ELSE LET scored == Head(merged)
             rows == {r \in mem : r.id = scored.id}
         IN (IF rows = {} THEN <<>>
             ELSE <<Entry(CHOOSE r \in rows : TRUE, Some(scored.final_score))>>)
                \o Hydrate(mem, Tail(merged))

\* the LIKE fallback: content LIKE %w% OR key LIKE %w% for a word w of the
\* query, ORDER BY updated_at DESC LIMIT limit, score 1.0
LikeFallback(mem, query, limit) ==
    LET words == split_whitespace(query)
        rows == {r \in mem : \E i \in 1 .. Len(words) :
                     Like(r.content, words[i]) \/ Like(r.key, words[i])}
    IN IF words = <<>> THEN {<<>>}
       ELSE {Truncate([i \in 1 .. Len(s) |-> Entry(s[i], Some(1000))], limit) :
                 s \in Ranked(rows, LAMBDA r : r.updated_at)}

\* the database section of recall: what it may return
RecallResults(mem, fts, query, limit, query_embedding) ==
    UNION {
      UNION {
        UNION {
          LET results == Hydrate(mem, merged)
          IN IF results = <<>>
             THEN {Truncate(s, limit) : s \in LikeFallback(mem, query, limit)}
             ELSE {Truncate(results, limit)} :
          merged \in IF vector_results = <<>>
                     THEN {KeywordOnly(keyword_results)}
                     ELSE hybrid_merge(vector_results, keyword_results,
                                       vector_weight, keyword_weight, limit)} :
        vector_results \in IF query_embedding.some
                           THEN vector_search(mem, query_embedding.val, limit * 2)
                           ELSE {<<>>}} :
      keyword_results \in fts5_search(mem, fts, query, limit * 2)}

----------------------------------------------------------------------------
(* Initial states *)

NoFrame == [op |-> "none", text |-> <<>>, now |-> 0, emb |-> Ok(None)]

\* What an earlier run's store(KeyA, ApplePie, Daily) at time 0 left in
\* brain.db, under the embedder and the cache bound of this run
StoredBefore ==
    LET embedding == IF dims = 0 THEN None
                     ELSE Some(vec_to_bytes(EmbedVec(ApplePie)))
        row == [rowid |-> 1, id |-> 1, key |-> KeyA, content |-> ApplePie,
                category |-> category_to_str(Daily), embedding |-> embedding,
                created_at |-> 0, updated_at |-> 0]
    IN /\ memories = {row}
       /\ memories_fts = {FtsEntry(row)}
       /\ embedding_cache =
              IF dims = 0 \/ cache_max = 0 THEN {}
              ELSE {[content_hash |-> content_hash(ApplePie),
                     embedding |-> embedding.val,
                     created_at |-> 0, accessed_at |-> 0]}
       /\ uuid = 1
       /\ live = {KeyA}
       /\ recency = <<>>

\* A database file that did not exist
FreshDatabase ==
    /\ memories = {}
    /\ memories_fts = {}
    /\ embedding_cache = {}
    /\ uuid = 0
    /\ live = {}
    /\ recency = <<>>

\* No function of vector.rs is called on its own
NoCall ==
    /\ args = <<>>
    /\ ret = None

InitTasks ==
    /\ conn = 0
    /\ clock = 0
    /\ pc = [t \in Tasks |-> "idle"]
    /\ frame = [t \in Tasks |-> NoFrame]
    /\ result = [t \in Tasks |-> None]
    /\ calls = 0

\* with_embedder, for callers that run concurrently
Init ==
    /\ sched = "concurrent"
    /\ dims \in {0, Dim}
    /\ cache_max \in 0 .. MaxCacheMax
    /\ dims = 0 => cache_max = MaxCacheMax
    /\ FreshDatabase \/ StoredBefore
    /\ InitTasks
    /\ NoCall

\* The records earlier runs may have left in brain.db: record i, with the
\* embedding blob its run's provider gave it
LeftKey(i) == CASE i = 1 -> KeyA [] i = 2 -> KeyB [] OTHER -> KeyC
LeftContent(i) == CASE i = 1 -> ApplePie [] i = 2 -> BananaBread [] OTHER -> Banana

\* no provider (NULL), this run's provider, a provider of one dimension
\* less, and a provider that answered an empty vector
LeftEmbedding(content, provider) ==
    CASE provider = "none" -> None
      [] provider = "same" -> Some(vec_to_bytes(EmbedVec(content)))
      [] provider = "shorter" ->
             Some(vec_to_bytes(SubSeq(EmbedVec(content), 1, Dim - 1)))
      [] OTHER -> Some(<<>>)

Providers == {"none", "same", "shorter", "empty"}

LeftRow(i, embedding) ==
    [rowid |-> i, id |-> i, key |-> LeftKey(i), content |-> LeftContent(i),
     category |-> category_to_str(Daily), embedding |-> embedding,
     created_at |-> i - 4, updated_at |-> i - 4]

\* with_embedder on a database file of earlier runs, for a caller that
\* recalls
InitRecall ==
    /\ sched = "recall"
    /\ dims \in {0, Dim}
    /\ cache_max = 0
    /\ \E present \in SUBSET (1 .. 3) :
          memories \in
              {{LeftRow(i, LeftEmbedding(LeftContent(i), by[i])) : i \in present} :
                  by \in [present -> Providers]}
    /\ memories_fts = {FtsEntry(r) : r \in memories}
    /\ embedding_cache = {}
    /\ uuid = 3
    /\ live = {r.key : r \in memories}
    /\ recency = <<>>
    /\ InitTasks
    /\ NoCall

\* with_embedder, for one caller whose calls follow one another
InitSeq ==
    /\ sched = "sequential"
    /\ dims = Dim
    /\ cache_max \in 0 .. MaxSeqCacheMax
    /\ FreshDatabase
    /\ InitTasks
    /\ NoCall

----------------------------------------------------------------------------
(* get_or_compute_embedding *)

\* What Local::now() may return: no less than the latest reading; in a
\* sequential run every reading is later than the one before; in a fair
\* run, where no step depends on the time, the clock stands still
Readings ==
    CASE sched = "sequential" -> {clock + 1}
      [] sched = "fair" -> {clock}
      [] OTHER -> clock .. MaxClock

\* The history of served texts after text is served: text comes last.  The
\* history is kept in sequential runs, where the calls are ordered.
Served(text) ==
    IF sched = "sequential"
    THEN SelectSeq(recency, LAMBDA x : x # text) \o <<text>>
    ELSE recency

\* The frame of an operation that has returned: its locals are gone; the
\* model keeps what get_or_compute_embedding had answered
Returned(op, emb) == [NoFrame EXCEPT !.op = op, !.emb = emb]

\* (mutant) store goes on to its database section whatever was answered
StoreOnEmbeddingIgnored(res) == "st_upsert"

\* store: `self.get_or_compute_embedding(content).await?`
StoreOnEmbedding(res) == IF res.ok THEN "st_upsert" ELSE "ret"

\* (mutant) a recall that asks again until the embedder answers
RecallOnEmbeddingRetries(res) == IF res.ok THEN "rc_query" ELSE "gce_check"

\* recall: `self.get_or_compute_embedding(query).await?`
RecallOnEmbedding(res) == IF res.ok THEN "rc_query" ELSE "ret"

\* get_or_compute_embedding returns res to its caller
GceReturn(t, fr, res) ==
    LET next == IF fr.op = "store" THEN StoreOnEmbedding(res)
                ELSE RecallOnEmbedding(res)
    IN /\ pc' = [pc EXCEPT ![t] = next]
       /\ frame' = [frame EXCEPT ![t] =
                       IF next = "ret" THEN Returned(fr.op, res)
                       ELSE [fr EXCEPT !.emb = res]]
       /\ result' = [result EXCEPT ![t] =
                         IF next = "ret" THEN Err(res.err) ELSE None]

\* (mutant) get_or_compute_embedding without its dimensions() == 0 return
GceEnterLooksUp(t, fr) ==
    /\ pc' = [pc EXCEPT ![t] = "gce_check"]
    /\ \E now \in Readings :
          /\ clock' = now
          /\ frame' = [frame EXCEPT ![t] = [fr EXCEPT !.now = now]]
    /\ UNCHANGED result

\* Entry of get_or_compute_embedding: dimensions() == 0 returns Ok(None);
\* otherwise hash and now are taken, before the guard is asked for
GceEnter(t, fr) ==
    IF dims = 0
    THEN GceReturn(t, fr, Ok(None)) /\ UNCHANGED clock
    ELSE /\ pc' = [pc EXCEPT ![t] = "gce_check"]
         /\ \E now \in Readings :
               /\ clock' = now
               /\ frame' = [frame EXCEPT ![t] = [fr EXCEPT !.now = now]]
         /\ UNCHANGED result

\* (mutant) the guard is still held when embed_one is awaited
GuardHeld(t) == t

\* The guard after the cache-lookup block on a miss: dropped at the end of
\* the block, before embed_one is awaited
GuardAfterLookup(t) == 0

\* The cache-lookup section
GceCheck(t) ==
    /\ pc[t] = "gce_check"
    /\ conn = 0
    /\ LET hash == content_hash(frame[t].text)
           cached == {c \in embedding_cache : c.content_hash = hash}
       IN IF cached # {}
          THEN LET bytes == (CHOOSE c \in cached : TRUE).embedding
               IN /\ embedding_cache' =
                         CacheTouch(embedding_cache, hash, frame[t].now)
                  /\ GceReturn(t, frame[t], Ok(Some(bytes_to_vec(bytes))))
                  /\ conn' = 0
                  /\ recency' = Served(frame[t].text)
          ELSE /\ pc' = [pc EXCEPT ![t] = "gce_embed"]
               /\ conn' = GuardAfterLookup(t)
               /\ UNCHANGED <<embedding_cache, frame, result, recency>>
    /\ UNCHANGED <<tables, clock, uuid, config, calls, live>>

\* embed_one fails: `?` returns the error from get_or_compute_embedding
EmbedErr(t) ==
    /\ pc[t] = "gce_embed"
    /\ \E out \in EmbedOutcomes(frame[t].text) :
          /\ ~out.ok
          /\ GceReturn(t, frame[t], out)
    /\ UNCHANGED <<tables, embedding_cache, conn, clock, uuid, config,
                   calls, live, recency>>

\* embed_one returns a vector (a step that touches nothing shared), and
\* the cache-insertion section runs: insert or replace, then evict
GceInsert(t) ==
    /\ pc[t] = "gce_embed"
    /\ conn = 0
    /\ \E out \in EmbedOutcomes(frame[t].text) :
          /\ out.ok
          /\ LET embedding == out.val
                 row == [content_hash |-> content_hash(frame[t].text),
                         embedding |-> vec_to_bytes(embedding),
                         created_at |-> frame[t].now,
                         accessed_at |-> frame[t].now]
                 inserted == CacheInsertOrReplace(embedding_cache, row)
             IN /\ \E victims \in EvictionChoices(inserted, cache_max) :
                      embedding_cache' = inserted \ victims
                /\ GceReturn(t, frame[t], Ok(Some(embedding)))
    /\ recency' = Served(frame[t].text)
    /\ UNCHANGED <<tables, conn, clock, uuid, config, calls, live>>

----------------------------------------------------------------------------
(* store *)

\* A task that is not inside an operation (it has made none yet, its caller
\* holds the result of the one before or has dropped that one, or the
\* runtime has caught its panic) invokes one.  The tasks are
\* interchangeable: the one that invokes first is called task 1.
Invoke(t) ==
    /\ pc[t] \in {"idle", "ret", "cancelled", "panicked"}
    /\ \A u \in Tasks : u < t => pc[u] # "idle"
    /\ calls < (IF sched = "sequential" THEN MaxSeqCalls ELSE MaxCalls)
    /\ calls' = calls + 1

StoreCall(t, content) ==
    /\ Invoke(t)
    /\ GceEnter(t, [NoFrame EXCEPT !.op = "store", !.text = content])
    /\ UNCHANGED <<tables, embedding_cache, conn, uuid, config, live, recency>>

\* `.map(|emb| vector::vec_to_bytes(&emb))`
EmbeddingBytes(emb) ==
    IF emb.ok /\ emb.val.some THEN Some(vec_to_bytes(emb.val.val)) ELSE None

\* The database section of store.  key and category are read here for the
\* first time, so the model draws them here.
StoreUpsert(t, key, category) ==
    /\ pc[t] = "st_upsert"
    /\ conn = 0
    /\ \E now \in Readings :
          LET cat == category_to_str(category)
              id == uuid + 1
              new == UpsertRow(memories, id, key, frame[t].text, cat,
                               EmbeddingBytes(frame[t].emb), now)
          IN /\ clock' = now
             /\ memories' = Upsert(memories, id, key, frame[t].text, cat,
                                   EmbeddingBytes(frame[t].emb), now)
             /\ memories_fts' = UpsertTriggers(memories, memories_fts, key, new)
    /\ uuid' = uuid + 1
    /\ live' = live \cup {key}
    /\ pc' = [pc EXCEPT ![t] = "ret"]
    /\ frame' = [frame EXCEPT ![t] = Returned("store", Ok(None))]
    /\ result' = [result EXCEPT ![t] = Ok(Unit)]
    /\ UNCHANGED <<embedding_cache, conn, config, calls, recency>>

\* The database rejects the statement: it has no effect, `?` returns the error
StoreRejected(t) ==
    /\ pc[t] = "st_upsert"
    /\ conn = 0
    /\ pc' = [pc EXCEPT ![t] = "ret"]
    /\ frame' = [frame EXCEPT ![t] = Returned("store", Ok(None))]
    /\ result' = [result EXCEPT ![t] = Err("Storage")]
    /\ UNCHANGED <<tables, embedding_cache, conn, clock, uuid, config, calls,
                   live, recency>>

----------------------------------------------------------------------------
(* recall *)

RecallCall(t, query) ==
    /\ Invoke(t)
    /\ IF TrimIsEmpty(query)
       THEN /\ pc' = [pc EXCEPT ![t] = "ret"]
            /\ frame' = [frame EXCEPT ![t] = Returned("recall", Ok(None))]
            /\ result' = [result EXCEPT ![t] = Ok(Entries(<<>>))]
            /\ UNCHANGED clock
       ELSE GceEnter(t, [NoFrame EXCEPT !.op = "recall", !.text = query])
    /\ UNCHANGED <<tables, embedding_cache, conn, uuid, config, live, recency>>

\* The database section of recall
RecallQuery(t, limit) ==
    /\ pc[t] = "rc_query"
    /\ conn = 0
    /\ \E entries \in RecallResults(memories, memories_fts, frame[t].text,
                                    limit, frame[t].emb.val) :
          result' = [result EXCEPT ![t] = Ok(Entries(entries))]
    /\ pc' = [pc EXCEPT ![t] = "ret"]
    /\ frame' = [frame EXCEPT ![t] = Returned("recall", Ok(None))]
    /\ UNCHANGED <<tables, embedding_cache, conn, clock, uuid, config, calls,
                   live, recency>>

----------------------------------------------------------------------------
(* forget, get, count *)

\* (mutant) a forget that also empties the embedding cache
ForgetDropsCache(t, key) ==
    /\ Invoke(t)
    /\ conn = 0
    /\ LET olds == {r \in memories : r.key = key}
           affected == Cardinality(olds)
       IN /\ memories' = DeleteByKey(memories, key)
          /\ memories_fts' = DeleteTriggers(memories_fts, olds)
          /\ result' = [result EXCEPT ![t] = Ok(Bool(affected > 0))]
    /\ embedding_cache' = {}
    /\ live' = live \ {key}
    /\ pc' = [pc EXCEPT ![t] = "ret"]
    /\ frame' = [frame EXCEPT ![t] = Returned("forget", Ok(None))]
    /\ UNCHANGED <<conn, clock, uuid, config, recency>>

Forget(t, key) ==
    /\ Invoke(t)
    /\ conn = 0
    /\ LET olds == {r \in memories : r.key = key}
           affected == Cardinality(olds)
       IN /\ memories' = DeleteByKey(memories, key)
          /\ memories_fts' = DeleteTriggers(memories_fts, olds)
          /\ result' = [result EXCEPT ![t] = Ok(Bool(affected > 0))]
    /\ live' = live \ {key}
    /\ pc' = [pc EXCEPT ![t] = "ret"]
    /\ frame' = [frame EXCEPT ![t] = Returned("forget", Ok(None))]
    /\ UNCHANGED <<embedding_cache, conn, clock, uuid, config, recency>>

GetOp(t, key) ==
    /\ Invoke(t)
    /\ conn = 0
    /\ result' = [result EXCEPT ![t] = Ok(Get(memories, key))]
    /\ pc' = [pc EXCEPT ![t] = "ret"]
    /\ frame' = [frame EXCEPT ![t] = Returned("get", Ok(None))]
    /\ UNCHANGED <<tables, embedding_cache, conn, clock, uuid, config, live,
                   recency>>

CountOp(t) ==
    /\ Invoke(t)
    /\ conn = 0
    /\ result' = [result EXCEPT ![t] = Ok(Usize(Count(memories)))]
    /\ pc' = [pc EXCEPT ![t] = "ret"]
    /\ frame' = [frame EXCEPT ![t] = Returned("count", Ok(None))]
    /\ UNCHANGED <<tables, embedding_cache, conn, clock, uuid, config, live,
                   recency>>

----------------------------------------------------------------------------
(* Specifications *)

Next ==
    \/ \E t \in Tasks, content \in Contents : StoreCall(t, content)
    \/ \E t \in Tasks, query \in Queries : RecallCall(t, query)
    \/ \E t \in Tasks : GceCheck(t)
    \/ \E t \in Tasks : EmbedErr(t)
    \/ \E t \in Tasks : GceInsert(t)
    \/ \E t \in Tasks, key \in Keys, category \in Categories :
           StoreUpsert(t, key, category)
    \/ \E t \in Tasks : StoreRejected(t)
    \/ \E t \in Tasks, limit \in 0 .. MaxLimit : RecallQuery(t, limit)
    \/ \E t \in Tasks, key \in Keys : Forget(t, key)
    \/ \E t \in Tasks, key \in Keys : GetOp(t, key)
    \/ \E t \in Tasks : CountOp(t)

\* Concurrent callers
Spec == Init /\ [][Next]_vars

\* One caller, one get_or_compute_embedding call after the other
NextSeq ==
    \/ \E content \in Contents : StoreCall(1, content)
    \/ \E query \in Queries : RecallCall(1, query)
    \/ GceCheck(1)
    \/ EmbedErr(1)
    \/ GceInsert(1)
    \/ StoreUpsert(1, KeyA, Daily)
    \/ RecallQuery(1, 1)

SpecSeq == InitSeq /\ [][NextSeq]_vars

\* One caller that recalls from a database of earlier runs
NextRecall ==
    \/ \E query \in Queries : RecallCall(1, query)
    \/ GceCheck(1)
    \/ EmbedErr(1)
    \/ GceInsert(1)
    \/ \E limit \in 0 .. MaxLimit : RecallQuery(1, limit)

SpecRecall == InitRecall /\ [][NextRecall]_vars


----------------------------------------------------------------------------
(* The functions of vector.rs, called on their own *)

\* A store that nobody uses
Unused ==
    /\ sched = "unused"
    /\ dims = 0
    /\ cache_max = 0
    /\ FreshDatabase
    /\ InitTasks

\* The result lists of at most MaxList pairs (id, score), no id twice, as
\* fts5_search and vector_search build them
MergeIds == 1 .. 3
VectorScores == {500, 1000}
KeywordScores == {0, 1000, 2000}
ResultLists(scores) ==
    UNION {{s \in [1 .. n -> MergeIds \X scores] :
                \A i, j \in 1 .. n : i # j => s[i][1] # s[j][1]} :
              n \in 0 .. MaxList}

\* (vector_weight, keyword_weight), in tenths
Weights == {<<7, 3>>, <<0, 3>>, <<7, 0>>, <<7, 0 - 3>>}

InitMerge ==
    /\ Unused
    /\ args \in [vector_results : ResultLists(VectorScores),
                 keyword_results : ResultLists(KeywordScores),
                 weights : Weights,
                 limit : 0 .. MaxLimit]
    /\ ret = None

\* hybrid_merge(&vector_results, &keyword_results, vw, kw, limit)
HybridMergeCall ==
    /\ ret = None
    /\ \E merged \in hybrid_merge(args.vector_results, args.keyword_results,
                                  args.weights[1], args.weights[2],
                                  args.limit) :
          ret' = Some(merged)
    /\ UNCHANGED <<args, store>>

NextMerge == HybridMergeCall

SpecMerge == InitMerge /\ [][NextMerge]_vars

\* f32 values: 0.0, 1.0, -2.5 and a NaN, and the bytes of blobs
F32s == {F32_0, F32_1, <<192, 32, 0, 0>>, <<127, 192, 0, 0>>}
BlobBytes == {0, 63, 128}

\* A vector to encode, or a byte string to decode (of no known vector)
InitBytes ==
    /\ Unused
    /\ \/ args \in [fn : {"vec_to_bytes"},
                     v : UNION {[1 .. n -> F32s] : n \in 0 .. Dim}]
       \/ args \in [fn : {"bytes_to_vec"},
                     bytes : UNION {[1 .. n -> BlobBytes] : n \in 0 .. MaxBytes},
                     of : {None}]
    /\ ret = None

\* vec_to_bytes(&v)
VecToBytesCall ==
    /\ args.fn = "vec_to_bytes"
    /\ ret = None
    /\ ret' = Some(vec_to_bytes(args.v))
    /\ UNCHANGED <<args, store>>

\* the caller hands the bytes it got for v to bytes_to_vec
HandOver ==
    /\ args.fn = "vec_to_bytes"
    /\ ret.some
    /\ args' = [fn |-> "bytes_to_vec", bytes |-> ret.val, of |-> Some(args.v)]
    /\ ret' = None
    /\ UNCHANGED store

\* bytes_to_vec(&bytes)
BytesToVecCall ==
    /\ args.fn = "bytes_to_vec"
    /\ ret = None
    /\ ret' = Some(bytes_to_vec(args.bytes))
    /\ UNCHANGED <<args, store>>

NextBytes ==
    \/ VecToBytesCall
    \/ HandOver
    \/ BytesToVecCall

SpecBytes == InitBytes /\ [][NextBytes]_vars

----------------------------------------------------------------------------
(* list, health_check, and what goes wrong: statements that fail, a panic  *)
(* inside a database section, a caller that drops the operation            *)

\* The value of conn once a task has unwound while it held the guard:
\* every later lock() answers Err(PoisonError)
Poisoned == 0 - 1

\* list: SELECT ... [WHERE category = ?1] ORDER BY updated_at DESC, each row
\* through row_mapper; the order among equal updated_at is the database's
List(mem, category) ==
    LET rows == IF category.some
                THEN {r \in mem : r.category = category_to_str(category.val)}
                ELSE mem
    IN {[i \in 1 .. Len(s) |-> Entry(s[i], None)] :
            s \in Ranked(rows, LAMBDA r : r.updated_at)}

\* the category argument of list
Filters == {None} \cup {Some(c) : c \in Categories}

ListOp(t, category) ==
    /\ Invoke(t)
    /\ conn = 0
    /\ \E entries \in List(memories, category) :
          result' = [result EXCEPT ![t] = Ok(Entries(entries))]
    /\ pc' = [pc EXCEPT ![t] = "ret"]
    /\ frame' = [frame EXCEPT ![t] = Returned("list", Ok(None))]
    /\ UNCHANGED <<tables, embedding_cache, conn, clock, uuid, config, live,
                   recency>>

\* (mutant) health_check with unwrap_or(true)
HealthAnswersUnwrapTrue(guard) ==
    IF guard = Poisoned THEN {TRUE} ELSE BOOLEAN

\* lock().map(|c| c.execute_batch("SELECT 1").is_ok()).unwrap_or(false):
\* false for a poisoned guard, else whether SELECT 1 succeeded
HealthAnswers(guard) ==
    IF guard = Poisoned THEN {FALSE} ELSE BOOLEAN

\* health_check; the answer is a bare bool
HealthCheck(t) ==
    /\ Invoke(t)
    /\ conn \in {0, Poisoned}
    /\ \E answer \in HealthAnswers(conn) :
          result' = [result EXCEPT ![t] = Bool(answer)]
    /\ pc' = [pc EXCEPT ![t] = "ret"]
    /\ frame' = [frame EXCEPT ![t] = Returned("health_check", Ok(None))]
    /\ UNCHANGED <<tables, embedding_cache, conn, clock, uuid, config, live,
                   recency>>

\* (mutant) a get that returns the row's error
GetRowPropagated(next) ==
    IF next.some
    THEN (IF next.val.ok THEN Ok(Some(next.val.val)) ELSE next.val)
    ELSE Ok(None)

\* get: match rows.next() { Some(Ok(entry)) => Ok(Some(entry)), _ => Ok(None) }
GetRow(next) ==
    IF next.some /\ next.val.ok THEN Ok(Some(next.val.val)) ELSE Ok(None)

\* get of a key that has a record, when reading the row fails: the
\* statement is prepared and the query started, rows.next() is Some(Err(e))
GetRowFails(t, key) ==
    /\ Invoke(t)
    /\ conn = 0
    /\ (\E r \in memories : r.key = key)
    /\ result' = [result EXCEPT ![t] = GetRow(Some(Err("Storage")))]
    /\ pc' = [pc EXCEPT ![t] = "ret"]
    /\ frame' = [frame EXCEPT ![t] = Returned("get", Ok(None))]
    /\ UNCHANGED <<tables, embedding_cache, conn, clock, uuid, config, live,
                   recency>>

\* the operations that are one database section
Sections == {"get", "list", "forget", "count"}

\* prepare, query_map, execute or query_row fails in get, list, forget or
\* count, or a row of list does: `?` returns the error, nothing is changed
Rejected(t, op) ==
    /\ Invoke(t)
    /\ conn = 0
    /\ result' = [result EXCEPT ![t] = Err("Storage")]
    /\ pc' = [pc EXCEPT ![t] = "ret"]
    /\ frame' = [frame EXCEPT ![t] = Returned(op, Ok(None))]
    /\ UNCHANGED <<tables, embedding_cache, conn, clock, uuid, config, live,
                   recency>>

\* recall's `limit * 2` overflows usize (overflow checks on) after the
\* guard is taken: the task unwinds and the guard is dropped poisoned
Panic(t) ==
    /\ pc[t] = "rc_query"
    /\ conn = 0
    /\ conn' = Poisoned
    /\ pc' = [pc EXCEPT ![t] = "panicked"]
    /\ frame' = [frame EXCEPT ![t] = Returned("recall", Ok(None))]
    /\ UNCHANGED <<tables, embedding_cache, clock, uuid, config, calls, live,
                   recency, result>>

\* lock() of a poisoned guard inside store or recall: the lookup section of
\* get_or_compute_embedding, or the operation's own section when
\* dimensions() is 0; map_err and `?` return the lock error
LockError(t) ==
    /\ pc[t] \in {"gce_check", "st_upsert", "rc_query"}
    /\ conn = Poisoned
    /\ pc' = [pc EXCEPT ![t] = "ret"]
    /\ frame' = [frame EXCEPT ![t] = Returned(frame[t].op, Ok(None))]
    /\ result' = [result EXCEPT ![t] = Err("Lock")]
    /\ UNCHANGED <<tables, embedding_cache, conn, clock, uuid, config, calls,
                   live, recency>>

\* lock() of a poisoned guard in get, list, forget or count
SectionLockError(t, op) ==
    /\ Invoke(t)
    /\ conn = Poisoned
    /\ result' = [result EXCEPT ![t] = Err("Lock")]
    /\ pc' = [pc EXCEPT ![t] = "ret"]
    /\ frame' = [frame EXCEPT ![t] = Returned(op, Ok(None))]
    /\ UNCHANGED <<tables, embedding_cache, conn, clock, uuid, config, live,
                   recency>>

\* (mutant) the future is dropped inside the insertion section, between
\* the INSERT and the eviction
CancelInsideSection(t) ==
    /\ pc[t] = "gce_embed"
    /\ conn = 0
    /\ pc' = [pc EXCEPT ![t] = "cancelled"]
    /\ frame' = [frame EXCEPT ![t] = Returned(frame[t].op, Ok(None))]
    /\ embedding_cache' =
           CacheInsertOrReplace(embedding_cache,
               [content_hash |-> content_hash(frame[t].text),
                embedding |-> vec_to_bytes(EmbedVec(frame[t].text)),
                created_at |-> frame[t].now, accessed_at |-> frame[t].now])
    /\ UNCHANGED <<tables, conn, clock, uuid, config, calls, live, recency,
                   result>>

\* The caller drops the future of a store or recall that is suspended: the
\* one await that can be pending is embed_one's, where no guard is alive
Cancel(t) ==
    /\ pc[t] = "gce_embed"
    /\ pc' = [pc EXCEPT ![t] = "cancelled"]
    /\ frame' = [frame EXCEPT ![t] = Returned(frame[t].op, Ok(None))]
    /\ conn' = IF conn = t THEN 0 ELSE conn
    /\ UNCHANGED <<tables, embedding_cache, clock, uuid, config, calls, live,
                   recency, result>>

\* with_embedder, for one caller in a run where things go wrong
InitFaulty ==
    /\ sched = "faulty"
    /\ dims \in {0, Dim}
    /\ cache_max = MaxCacheMax
    /\ FreshDatabase \/ StoredBefore
    /\ InitTasks
    /\ NoCall

NextFaulty ==
    \/ \E content \in Contents : StoreCall(1, content)
    \/ \E query \in Queries : RecallCall(1, query)
    \/ GceCheck(1)
    \/ EmbedErr(1)
    \/ GceInsert(1)
    \/ \E key \in Keys, category \in Categories : StoreUpsert(1, key, category)
    \/ StoreRejected(1)
    \/ RecallQuery(1, MaxLimit)
    \/ \E key \in Keys : Forget(1, key)
    \/ \E key \in Keys : GetOp(1, key)
    \/ CountOp(1)
    \/ \E category \in Filters : ListOp(1, category)
    \/ HealthCheck(1)
    \/ \E key \in Keys : GetRowFails(1, key)
    \/ \E op \in Sections : Rejected(1, op)
    \/ Panic(1)
    \/ LockError(1)
    \/ \E op \in Sections : SectionLockError(1, op)
    \/ Cancel(1)

SpecFaulty == InitFaulty /\ [][NextFaulty]_vars

----------------------------------------------------------------------------
(* Concurrent callers under a fair scheduler *)

\* with_embedder on a database file that did not exist
InitFair ==
    /\ sched = "fair"
    /\ dims \in {0, Dim}
    /\ cache_max = MaxCacheMax
    /\ FreshDatabase
    /\ InitTasks
    /\ NoCall

\* The step of task t inside a store or recall: a database section, or the
\* return of embed_one
Step(t) ==
    \/ GceCheck(t)
    \/ EmbedErr(t)
    \/ GceInsert(t)
    \/ StoreUpsert(t, KeyA, Daily)
    \/ StoreRejected(t)
    \/ RecallQuery(t, MaxLimit)

NextFair ==
    \/ \E t \in Tasks, content \in Contents : StoreCall(t, content)
    \/ \E t \in Tasks, query \in Queries : RecallCall(t, query)
    \/ \E t \in Tasks : Step(t)
    \/ \E t \in Tasks : Forget(t, KeyA)
    \/ \E t \in Tasks : GetOp(t, KeyA)
    \/ \E t \in Tasks : CountOp(t)
    \/ \E t \in Tasks : ListOp(t, None)
    \/ \E t \in Tasks : HealthCheck(t)

\* The runtime polls every task that can go on, every embedder call comes
\* back, and a database section ends: a task that can step does step
SpecFair ==
    /\ InitFair
    /\ [][NextFair]_vars
    /\ \A t \in Tasks : WF_vars(Step(t))

----------------------------------------------------------------------------
(* Claims *)

HasKey(mem, key) == \E r \in mem : r.key = key
RowOf(mem, key) == CHOOSE r \in mem : r.key = key
Hashes(cache) == {c.content_hash : c \in cache}

\* C1: a store to a key that has a record leaves the record's id and
\* created_at as they were and sets content, category, embedding and
\* updated_at to the values of the call; get(key) then returns the same id,
\* the new content and the original created_at as timestamp.
C1_UpsertPreservesIdentity ==
    [][\A t \in Tasks, key \in Keys, category \in Categories :
          (StoreUpsert(t, key, category) /\ HasKey(memories, key)) =>
              LET old == RowOf(memories, key)
                  answered == frame[t].emb.val
              IN /\ \E new \in memories' :
                       /\ new.key = key
                       /\ new.id = old.id
                       /\ new.created_at = old.created_at
                       /\ new.content = frame[t].text
                       /\ new.category = category_to_str(category)
                       /\ new.embedding =
                              IF answered.some
                              THEN Some(vec_to_bytes(answered.val)) ELSE None
                       /\ new.updated_at = clock'
                 /\ Get(memories', key).some
                 /\ Get(memories', key).val.id = Get(memories, key).val.id
                 /\ Get(memories', key).val.content = frame[t].text
                 /\ Get(memories', key).val.timestamp = old.created_at]_vars

\* C1 witness: the record stored before under KeyA was stored again, later,
\* with another content and category
C1_Witness ==
    \E t \in Tasks, r \in memories :
        /\ pc[t] = "ret" /\ frame[t].op = "store" /\ result[t] = Ok(Unit)
        /\ r.key = KeyA /\ r.id = 1 /\ r.created_at = 0 /\ r.updated_at = 1
        /\ r.content = BananaBread /\ r.category = "core"
        /\ uuid = 2

\* C2: no two records share a key, no two records share an id, and count()
\* is the number of keys stored and not forgotten since.
C2_KeysUniqueAndCounted ==
    /\ \A r1, r2 \in memories : r1.key = r2.key => r1 = r2
    /\ \A r1, r2 \in memories : r1.id = r2.id => r1 = r2
    /\ {r.key : r \in memories} = live
    /\ Count(memories) = Cardinality(live)

\* C2 witness: both tasks stored, on a fresh database, and count() is 1
C2_Witness ==
    /\ \A t \in Tasks :
           pc[t] = "ret" /\ frame[t].op = "store" /\ result[t] = Ok(Unit)
    /\ uuid = 2
    /\ Count(memories) = 1

\* C3: forget(key) returns true exactly when a record with that key
\* existed; then count drops by one, get(key) is none and the records of
\* the other keys are as they were; otherwise the table is unchanged.
C3_Forget ==
    [][\A t \in Tasks, key \in Keys :
          Forget(t, key) =>
              /\ result'[t] = Ok(Bool(HasKey(memories, key)))
              /\ HasKey(memories, key) =>
                     /\ Count(memories') = Count(memories) - 1
                     /\ Get(memories', key) = None
                     /\ {r \in memories' : r.key # key}
                            = {r \in memories : r.key # key}
              /\ ~HasKey(memories, key) => memories' = memories]_vars

\* C3 witness: a forget returned true and the record of the other key is
\* still there
C3_Witness ==
    \E t \in Tasks :
        /\ pc[t] = "ret" /\ frame[t].op = "forget" /\ result[t] = Ok(Bool(TRUE))
        /\ Count(memories) = 1
        /\ uuid = 2

\* C4: the full-text index holds exactly one entry per record, with the
\* key and content the record has now.
C4_IndexInLockstep ==
    /\ memories_fts = {FtsEntry(r) : r \in memories}
    /\ Cardinality(memories_fts) = Cardinality(memories)

\* C4 witness: a record was stored, stored again and forgotten
C4_Witness ==
    /\ uuid = 2
    /\ memories = {}
    /\ memories_fts = {}
    /\ \E t \in Tasks : frame[t].op = "forget" /\ result[t] = Ok(Bool(TRUE))

\* C5: no task holds the database guard while its embedder call is in
\* flight.
C5_GuardNotHeldAcrossEmbed ==
    \A t \in Tasks : pc[t] = "gce_embed" => conn # t

\* C5 witness: a store and a recall both wait for the embedder
C5_Witness ==
    /\ \A t \in Tasks : pc[t] = "gce_embed"
    /\ \E t, u \in Tasks : frame[t].op = "store" /\ frame[u].op = "recall"

\* C6: when the embedder call made for a recall's query fails, recall
\* returns no error: it returns the keyword-only result, the one it returns
\* with no query embedding.
C6_RecallSwallowsEmbedderFailure ==
    [][\A t \in Tasks :
          (EmbedErr(t) /\ frame[t].op = "recall") =>
              /\ result'[t].ok
              /\ \E limit \in 0 .. MaxLimit :
                     result'[t].val.entries \in
                         RecallResults(memories', memories_fts',
                                       frame[t].text, limit, None)]_vars

\* C7: a store that fails, because the embedder call fails or because the
\* database rejects the statement, returns the error and leaves the record
\* table and the full-text index as they were: a step of a store changes
\* them only when it is the store's successful return.
C7_FailedStoreChangesNothing ==
    [][\A t \in Tasks :
          /\ (frame[t].op = "store" /\ pc'[t] # pc[t]) =>
                 \/ pc'[t] = "ret" /\ result'[t] = Ok(Unit)
                 \/ UNCHANGED tables
          /\ (EmbedErr(t) /\ frame[t].op = "store") =>
                 /\ pc'[t] = "ret"
                 /\ result'[t] = Err("Embedder")
                 /\ UNCHANGED tables
          /\ StoreRejected(t) =>
                 /\ pc'[t] = "ret"
                 /\ result'[t] = Err("Storage")
                 /\ UNCHANGED tables]_vars

\* C7 witness: one store failed at the embedder, another was rejected by
\* the database, and the record stored before is as it was
C7_Witness ==
    /\ \E t, u \in Tasks :
           /\ pc[t] = "ret" /\ frame[t].op = "store"
           /\ result[t] = Err("Embedder")
           /\ pc[u] = "ret" /\ frame[u].op = "store"
           /\ result[u] = Err("Storage")
    /\ \E r \in memories :
           /\ r.key = KeyA /\ r.content = ApplePie /\ r.updated_at = 0
           /\ memories = {r}
           /\ memories_fts = {FtsEntry(r)}

\* C8: when a cache-insertion section has completed the cache holds at
\* most cache_max rows, and no other step adds a row.
C8_CacheBound ==
    [][/\ \A t \in Tasks :
             GceInsert(t) => Cardinality(embedding_cache') <= cache_max
       /\ Cardinality(embedding_cache') > Cardinality(embedding_cache) =>
             \E t \in Tasks : GceInsert(t)]_vars

\* C8 witness: with cache_max = 1, two texts were embedded and one row is
\* left, the second text's
C8_Witness ==
    /\ cache_max = 1
    /\ \E r \in memories : r.content = ApplePie /\ r.embedding.some
    /\ Hashes(embedding_cache) = {content_hash(BananaBread)}

\* C9: in a sequential run, with every call at a later time than the one
\* before, the cache holds the min(cache_max, number of texts served) most
\* recently served texts, a hit counting as a service.
C9_CacheHoldsMostRecent ==
    LET served == Len(recency)
        n == IF cache_max < served THEN cache_max ELSE served
    IN Hashes(embedding_cache) =
           {content_hash(recency[i]) : i \in served - n + 1 .. served}

\* C9 witness: cache_max = 2 and T1, T2, T3 embedded in that order: T1 is
\* gone, T2 and T3 are cached
C9_Witness ==
    /\ cache_max = 2
    /\ recency = <<ApplePie, BananaBread, Banana>>
    /\ Hashes(embedding_cache)
           = {content_hash(BananaBread), content_hash(Banana)}

\* C10: on a cache hit the entry's accessed_at is never set to a time
\* earlier than the one it had.
C10_HitAdvancesAccessedAt ==
    [][\A t \in Tasks :
          GceCheck(t) =>
              \A c \in embedding_cache : \A d \in embedding_cache' :
                  d.content_hash = c.content_hash =>
                      d.accessed_at >= c.accessed_at]_vars

\* C11: with an embedder of dimension 0 no store and no recall calls the
\* embedder or reads or writes the embedding cache: the cache table stays
\* as it is and every record written has no embedding.
C11_NoopEmbedderTouchesNothing ==
    [][dims = 0 =>
          /\ embedding_cache' = embedding_cache
          /\ \A t \in Tasks : pc'[t] \notin {"gce_check", "gce_embed"}
          /\ \A t \in Tasks : frame'[t].emb = Ok(None)
          /\ \A r \in memories' \ memories : r.embedding = None]_vars

\* C11 witness: with dimension 0, a store wrote a record and a recall found
\* it
C11_Witness ==
    /\ dims = 0
    /\ \E t, u \in Tasks :
           /\ pc[t] = "ret" /\ frame[t].op = "store" /\ result[t] = Ok(Unit)
           /\ pc[u] = "ret" /\ frame[u].op = "recall" /\ result[u].ok
           /\ result[u].val.entries # <<>>
    /\ \E r \in memories : r.content = BananaBread /\ r.embedding = None

\* C12: a recall whose query is empty or all whitespace returns the empty
\* list at once, whatever the store holds: no embedder call, no database
\* section, and the tables, the cache and the guard are left as they are.
C12_BlankQueryRecallsNothing ==
    [][\A t \in Tasks, query \in Queries :
          (RecallCall(t, query) /\ \A i \in 1 .. Len(query) : query[i] = " ")
              => /\ pc'[t] = "ret"
                 /\ result'[t] = Ok(Entries(<<>>))
                 /\ frame'[t].emb = Ok(None)
                 /\ UNCHANGED <<tables, embedding_cache, conn, clock>>]_vars

\* C12 witness: the only call so far is a recall that returned the empty
\* list from a store that holds a record, and nothing was embedded for it
C12_Witness ==
    /\ calls = 1
    /\ dims = Dim /\ cache_max = 1
    /\ pc[1] = "ret" /\ frame[1].op = "recall"
    /\ result[1] = Ok(Entries(<<>>))
    /\ memories # {}
    /\ Hashes(embedding_cache) = {content_hash(ApplePie)}

\* C13: whatever the query, the limit and the path, recall returns at most
\* limit entries, each the entry of a record that is in the record table
\* during recall's database section, no record twice; none when limit = 0.
C13_RecallWithinLimitAndTable ==
    [][\A t \in Tasks, limit \in 0 .. MaxLimit :
          RecallQuery(t, limit) =>
              /\ result'[t].ok
              /\ LET es == result'[t].val.entries
                 IN /\ Len(es) <= limit
                    /\ \A i \in 1 .. Len(es) :
                          \E r \in memories :
                              /\ es[i].id = r.id
                              /\ es[i].key = r.key
                              /\ es[i].content = r.content
                              /\ es[i].timestamp = r.created_at
                    /\ \A i, j \in 1 .. Len(es) :
                          i # j => es[i].id # es[j].id
                    /\ limit = 0 => es = <<>>]_vars

\* C13 witness: three records with embeddings of this run's provider, and
\* a recall that returned two of them, the first with a fused score
C13_Witness ==
    /\ dims = Dim
    /\ Cardinality(memories) = 3
    /\ \A r \in memories : r.embedding = Some(vec_to_bytes(EmbedVec(r.content)))
    /\ pc[1] = "ret" /\ frame[1].op = "recall" /\ result[1].ok
    /\ LET es == result[1].val.entries
       IN /\ Len(es) = 2
          /\ es[1].score.val > es[2].score.val
          /\ es[1].score.val \notin {1000, 2000}

\* the records the query's words match in the full-text index
Matching(mem, query) ==
    {r \in mem : fts5_match(FtsEntry(r), split_whitespace(query))}

\* the keyword score of record r: the negated BM25 value
KeywordScore(r, query) == 0 - bm25(FtsEntry(r), split_whitespace(query))

\* no record has a positive similarity to the query embedding emb, or
\* there is no query embedding
NoVectorResult(mem, emb) ==
    emb.some =>
        \A r \in mem :
            r.embedding.some =>
                cosine_similarity(emb.val, bytes_to_vec(r.embedding.val)) = 0

\* C14: when a recall has no vector result and the query's words match
\* records, the result lists the matching records best keyword match first
\* (the best limit of them), each with its keyword score, the negated BM25
\* value, as its score.
C14_KeywordResultsAsTheyAre ==
    [][\A t \in Tasks, limit \in 1 .. MaxLimit :
          (/\ RecallQuery(t, limit)
           /\ NoVectorResult(memories, frame[t].emb.val)
           /\ Matching(memories, frame[t].text) # {}) =>
              LET es == result'[t].val.entries
                  query == frame[t].text
                  matching == Matching(memories, query)
                  n == IF Cardinality(matching) < limit
                       THEN Cardinality(matching) ELSE limit
              IN /\ Len(es) = n
                 /\ \A i \in 1 .. n :
                       \E r \in matching :
                           es[i] = Entry(r, Some(KeywordScore(r, query)))
                 /\ \A i, j \in 1 .. n :
                       i < j => es[i].score.val >= es[j].score.val
                 /\ \A r \in matching :
                       (\A i \in 1 .. n : es[i].id # r.id) =>
                           \A i \in 1 .. n :
                               KeywordScore(r, query) <= es[i].score.val]_vars

\* C14 witness: null embedder, records (a, apple pie) and (b, banana
\* bread), and a recall that returned b alone, with its keyword score
C14_Witness ==
    /\ dims = 0
    /\ {<<r.key, r.content>> : r \in memories}
           = {<<KeyA, ApplePie>>, <<KeyB, BananaBread>>}
    /\ pc[1] = "ret" /\ frame[1].op = "recall" /\ result[1].ok
    /\ LET es == result[1].val.entries
       IN /\ Len(es) = 1
          /\ es[1].key = KeyB
          /\ es[1].score = Some(2000)

\* needle is a substring of hay
Contains(hay, needle) ==
    \E i \in 1 .. Len(hay) - Len(needle) + 1 :
        SubSeq(hay, i, i + Len(needle) - 1) = needle

\* the records whose content or key contains a word of the query
Containing(mem, query) ==
    LET words == split_whitespace(query)
    IN {r \in mem : \E i \in 1 .. Len(words) :
            Contains(r.content, words[i]) \/ Contains(r.key, words[i])}

\* the keyword and vector stage of a recall finds nothing to hydrate
RankedStageEmpty(mem, query, emb) ==
    Matching(mem, query) = {} /\ NoVectorResult(mem, emb)

\* C15: the LIKE fallback runs exactly when the ranked stage hydrates
\* nothing.  Then the result lists the records whose content or key
\* contains a word of the query as a substring, latest updated_at first,
\* the first limit of them, each with score 1.0; otherwise every entry
\* returned is one the ranked stage found.
C15_LikeFallback ==
    [][\A t \in Tasks, limit \in 1 .. MaxLimit :
          RecallQuery(t, limit) =>
              LET es == result'[t].val.entries
                  query == frame[t].text
                  emb == frame[t].emb.val
                  containing == Containing(memories, query)
                  n == IF Cardinality(containing) < limit
                       THEN Cardinality(containing) ELSE limit
              IN IF RankedStageEmpty(memories, query, emb)
                 THEN /\ Len(es) = n
                      /\ \A i \in 1 .. n :
                            \E r \in containing : es[i] = Entry(r, Some(1000))
                      /\ \A i, j \in 1 .. n :
                            i < j => RowOf(memories, es[i].key).updated_at
                                        >= RowOf(memories, es[j].key).updated_at
                      /\ \A r \in containing :
                            (\A i \in 1 .. n : es[i].id # r.id) =>
                                \A i \in 1 .. n :
                                    r.updated_at
                                       <= RowOf(memories, es[i].key).updated_at
                 ELSE /\ es # <<>>
                      /\ \A i \in 1 .. Len(es) :
                            \E r \in memories :
                               /\ es[i].id = r.id
                               /\ \/ r \in Matching(memories, query)
                                  \/ /\ emb.some /\ r.embedding.some
                                     /\ cosine_similarity(
                                            emb.val,
                                            bytes_to_vec(r.embedding.val)) > 0]_vars

\* the ids of a result list, and the score a list gives an id (0 if none)
IdsOf(list) == {list[i][1] : i \in 1 .. Len(list)}
ScoreIn(list, id) ==
    IF id \in IdsOf(list)
    THEN list[CHOOSE i \in 1 .. Len(list) : list[i][1] = id][2]
    ELSE 0

\* the final score the fusion rule gives id: vw * vector score + kw *
\* (keyword score / largest keyword score of the call, 1 standing for a
\* largest score below epsilon), scores in thousandths, weights in tenths
FusedScore(id) ==
    LET kws == {args.keyword_results[i][2] :
                   i \in 1 .. Len(args.keyword_results)}
        largest == IF kws = {} THEN 0 ELSE SetMax(kws)
        max_kw == IF largest < 1 THEN 1000 ELSE largest
        ks == (ScoreIn(args.keyword_results, id) * 1000) \div max_kw
    IN (args.weights[1] * ScoreIn(args.vector_results, id)
          + args.weights[2] * ks) \div 10

\* C16: hybrid_merge returns ids of the union of its two lists, each at
\* most once, with the final score of the fusion rule, best first, and of
\* the union it returns the limit best: an id left out has no higher final
\* score than one returned.
C16_HybridMerge ==
    ret.some =>
        LET ids == IdsOf(args.vector_results) \cup IdsOf(args.keyword_results)
            merged == ret.val
            n == IF Cardinality(ids) < args.limit
                 THEN Cardinality(ids) ELSE args.limit
        IN /\ Len(merged) = n
           /\ \A i \in 1 .. n :
                 /\ merged[i].id \in ids
                 /\ merged[i].final_score = FusedScore(merged[i].id)
           /\ \A i, j \in 1 .. n : i # j => merged[i].id # merged[j].id
           /\ \A i, j \in 1 .. n :
                 i < j => merged[i].final_score >= merged[j].final_score
           /\ \A id \in ids :
                 (\A i \in 1 .. n : merged[i].id # id) =>
                     \A i \in 1 .. n : FusedScore(id) <= merged[i].final_score

\* C16 witness: three ids, one in both lists, a largest keyword score of
\* 2.0, weights 0.7 and 0.3, limit 2: the two best are returned
C16_Witness ==
    /\ args = [vector_results |-> <<<<1, 1000>>, <<2, 500>>>>,
               keyword_results |-> <<<<2, 2000>>, <<3, 1000>>>>,
               weights |-> <<7, 3>>,
               limit |-> 2]
    /\ ret.some
    /\ Len(ret.val) = 2
    /\ ret.val[1].id = 1 /\ ret.val[1].final_score = 700
    /\ ret.val[2].id = 2 /\ ret.val[2].final_score = 650

\* the ids of a merged list, in its order
MergedIds(merged) == [i \in 1 .. Len(merged) |-> merged[i].id]

\* C17: with an empty vector list, keyword scores that are all different
\* and a positive keyword weight, hybrid_merge returns the ids by
\* descending keyword score; for a keyword list that is in that order, as
\* fts5_search returns it, they are the first limit ids of the merged list
\* recall builds when there are no vector results.
C17_FusionDegradesToKeywordOrder ==
    (/\ ret.some
     /\ args.vector_results = <<>>
     /\ args.weights[2] > 0
     /\ \A i, j \in 1 .. Len(args.keyword_results) :
           i # j => args.keyword_results[i][2] # args.keyword_results[j][2]) =>
        LET kws == args.keyword_results
            merged == ret.val
        IN /\ Len(merged) = (IF Len(kws) < args.limit THEN Len(kws)
                             ELSE args.limit)
           /\ \A i, j \in 1 .. Len(merged) :
                 i < j => ScoreIn(kws, merged[i].id) > ScoreIn(kws, merged[j].id)
           /\ \A id \in IdsOf(kws) :
                 (\A i \in 1 .. Len(merged) : merged[i].id # id) =>
                     \A i \in 1 .. Len(merged) :
                         ScoreIn(kws, id) < ScoreIn(kws, merged[i].id)
           /\ (\A i, j \in 1 .. Len(kws) : i < j => kws[i][2] > kws[j][2]) =>
                 MergedIds(merged)
                     = Truncate(MergedIds(KeywordOnly(kws)), args.limit)

\* C17 witness: no vector results, keyword results 2.0 and 1.0 in that
\* order, keyword weight 0.3: the ids come back in the keyword order
C17_Witness ==
    /\ args = [vector_results |-> <<>>,
               keyword_results |-> <<<<2, 2000>>, <<3, 1000>>>>,
               weights |-> <<7, 3>>,
               limit |-> 2]
    /\ ret.some
    /\ MergedIds(ret.val) = <<2, 3>>
    /\ MergedIds(KeywordOnly(args.keyword_results)) = <<2, 3>>

\* id a has at least the vector score and at least the keyword score of b
Dominates(a, b) ==
    /\ ScoreIn(args.vector_results, a) >= ScoreIn(args.vector_results, b)
    /\ ScoreIn(args.keyword_results, a) >= ScoreIn(args.keyword_results, b)

\* C18: with weights that are not negative, an id that dominates another
\* in both scores has at least its final score, and is not listed after it
\* unless the two final scores are equal.
C18_FusionMonotone ==
    (ret.some /\ args.weights[1] >= 0 /\ args.weights[2] >= 0) =>
        LET merged == ret.val
        IN /\ \A i, j \in 1 .. Len(merged) :
                 Dominates(merged[i].id, merged[j].id) =>
                     /\ merged[i].final_score >= merged[j].final_score
                     /\ j < i => merged[i].final_score = merged[j].final_score
           /\ \A i \in 1 .. Len(merged) :
                 \A b \in IdsOf(args.vector_results)
                            \cup IdsOf(args.keyword_results) :
                     Dominates(merged[i].id, b) =>
                         merged[i].final_score >= FusedScore(b)

\* C18 witness: id 1 dominates id 2 in both scores and is listed first,
\* with the higher final score
C18_Witness ==
    /\ args = [vector_results |-> <<<<2, 500>>, <<1, 1000>>>>,
               keyword_results |-> <<<<2, 1000>>, <<1, 2000>>>>,
               weights |-> <<7, 3>>,
               limit |-> 2]
    /\ ret.some
    /\ MergedIds(ret.val) = <<1, 2>>
    /\ ret.val[1].final_score = 1000
    /\ ret.val[2].final_score = 500

\* C19: vec_to_bytes(v) has 4 * len(v) bytes and bytes_to_vec gives v back
\* from them, bit for bit; bytes_to_vec(b) has floor(len(b) / 4)
\* components, the i-th read from the i-th whole chunk of four bytes, and
\* the 1 to 3 bytes after the last whole chunk are left out.
C19_VecBytesRoundTrip ==
    ret.some =>
        IF args.fn = "vec_to_bytes"
        THEN Len(ret.val) = 4 * Len(args.v)
        ELSE /\ Len(ret.val) = Len(args.bytes) \div 4
             /\ \A i \in 1 .. Len(ret.val) :
                   ret.val[i] = <<args.bytes[4 * i], args.bytes[4 * i - 1],
                                  args.bytes[4 * i - 2], args.bytes[4 * i - 3]>>
             /\ args.of.some => ret.val = args.of.val

\* C19 witness: the vector (1.0, -2.5) came back from its eight bytes
C19_Witness ==
    /\ args.fn = "bytes_to_vec"
    /\ args.of = Some(<<F32_1, <<192, 32, 0, 0>>>>)
    /\ args.bytes = <<0, 0, 128, 63, 0, 0, 32, 192>>
    /\ ret = Some(<<F32_1, <<192, 32, 0, 0>>>>)

\* the records whose stored embedding has another number of components
\* than the query embedding qe
Mismatched(mem, qe) ==
    {r \in mem : /\ r.embedding.some
                 /\ Len(bytes_to_vec(r.embedding.val)) # Len(qe)}

\* mem with the embeddings of the records in S set to NULL
WithoutEmbeddings(mem, S) ==
    {IF r \in S THEN [r EXCEPT !.embedding = None] ELSE r : r \in mem}

\* C20: a record whose stored embedding has another number of components
\* than the query embedding is in no vector result list and makes neither
\* the scan nor the recall fail; the scan and the recall give what they
\* give when that record has no embedding.
C20_MismatchedEmbeddingsIgnored ==
    [][\A t \in Tasks, limit \in 0 .. MaxLimit :
          (RecallQuery(t, limit) /\ frame[t].emb.val.some) =>
              LET qe == frame[t].emb.val.val
                  odd == Mismatched(memories, qe)
              IN /\ result'[t].ok
                 /\ \A s \in vector_search(memories, qe, limit * 2) :
                       \A i \in 1 .. Len(s) :
                           \A r \in odd : s[i][1] # r.id
                 /\ vector_search(memories, qe, limit * 2)
                        = vector_search(memories \ odd, qe, limit * 2)
                 /\ result'[t].val.entries \in
                        RecallResults(WithoutEmbeddings(memories, odd),
                                      memories_fts, frame[t].text, limit,
                                      frame[t].emb.val)]_vars

\* C20 witness: record b has an embedding of this run's provider, record c
\* one of a provider of one dimension less; a recall returned b alone, by
\* its similarity
C20_Witness ==
    /\ dims = Dim
    /\ memories = {LeftRow(2, LeftEmbedding(BananaBread, "same")),
                   LeftRow(3, LeftEmbedding(Banana, "shorter"))}
    /\ pc[1] = "ret" /\ frame[1].op = "recall" /\ result[1].ok
    /\ LET es == result[1].val.entries
       IN /\ Len(es) = 1
          /\ es[1].key = KeyB
          /\ es[1].score = Some(494)

\* C21: a database error inside store, get, forget, list or count is
\* returned to the caller as an error; in particular a get whose row lookup
\* failed does not answer Ok(None).
C21_DatabaseErrorsAreReturned ==
    [][\A t \in Tasks :
          (\/ StoreRejected(t)
           \/ \E op \in Sections : Rejected(t, op)
           \/ \E key \in Keys : GetRowFails(t, key))
              => ~result'[t].ok]_vars

\* a step in which task t returns from an operation
Returns(t) ==
    pc'[t] = "ret" /\ (pc[t] # "ret" \/ calls' = calls + 1)

\* C22: once the guard is poisoned it stays poisoned; every later
\* health_check answers false; every later store, get, list, forget, count
\* and recall of a non-blank query returns the lock error, calls no
\* embedder, and leaves the record table, the index and the cache as they
\* are.
C22_PoisonedGuard ==
    [][conn = Poisoned =>
          /\ conn' = Poisoned
          /\ tables' = tables
          /\ embedding_cache' = embedding_cache
          /\ \A t \in Tasks :
                /\ pc'[t] # "gce_embed"
                /\ Returns(t) =>
                      IF frame'[t].op = "health_check"
                      THEN result'[t] = Bool(FALSE)
                      ELSE \/ result'[t] = Err("Lock")
                           \/ \E query \in Queries :
                                 TrimIsEmpty(query) /\ RecallCall(t, query)]_vars

\* the guard is poisoned and a store has come back with the lock error
C22_Witness ==
    /\ conn = Poisoned
    /\ \E t \in Tasks :
          /\ pc[t] = "ret"
          /\ frame[t].op = "store"
          /\ result[t] = Err("Lock")

\* C23: a store or recall that is cancelled where it is suspended does not
\* hold the guard, and no step it took from its call to its cancellation
\* changed the record table, the index or the cache: what it leaves behind
\* is at most a cache row, never a change of the records.
C23_CancelledLeavesNothing ==
    [][\A t \in Tasks :
          /\ Cancel(t) => conn # t /\ conn' # t
          /\ (Cancel(t) \/ pc'[t] \in {"gce_check", "gce_embed"})
                => /\ tables' = tables
                   /\ embedding_cache' = embedding_cache]_vars

\* a store was dropped while its embedder call was in flight
C23_Witness ==
    \E t \in Tasks : pc[t] = "cancelled" /\ frame[t].op = "store"

\* C24: every record with an embedding has a blob of exactly 4 * D bytes,
\* D the dimension the embedder reports, whatever number of components the
\* embedder or a cached entry gave for the content.
C24_EmbeddingHasDimension ==
    \A r \in memories :
        r.embedding.some => Len(r.embedding.val) = 4 * dims

\* C25: the row a miss inserts carries the time of the insertion: it is not
\* older than any row already in the cache, and with cache_max >= 1 it is
\* in the cache when the insertion section ends, in every interleaving.
C25_InsertedRowIsNewest ==
    [][\A t \in Tasks :
          GceInsert(t) =>
              LET hash == content_hash(frame[t].text)
              IN /\ \A c \in embedding_cache :
                       c.content_hash # hash => c.accessed_at <= frame[t].now
                 /\ cache_max >= 1 => hash \in Hashes(embedding_cache')]_vars

\* C26: the embedder is called only after a lookup that found no row for
\* the hash; a lookup that finds a row returns the vector of that row's
\* blob, calls no embedder and removes no cache row; a cache row disappears
\* only in an insertion section whose row count, after the insertion,
\* exceeds cache_max.
C26_HitServesCacheMissCallsEmbedder ==
    [][/\ \A t \in Tasks :
             LET hash == content_hash(frame[t].text)
                 cached == {c \in embedding_cache : c.content_hash = hash}
             IN /\ (pc[t] # "gce_embed" /\ pc'[t] = "gce_embed")
                       => (pc[t] = "gce_check" /\ cached = {})
                /\ (GceCheck(t) /\ cached # {})
                       => /\ \E c \in cached :
                                frame'[t].emb = Ok(Some(bytes_to_vec(c.embedding)))
                          /\ pc'[t] # "gce_embed"
                          /\ {<<c.content_hash, c.embedding>> :
                                  c \in embedding_cache'}
                               = {<<c.content_hash, c.embedding>> :
                                      c \in embedding_cache}
       /\ ~(Hashes(embedding_cache) \subseteq Hashes(embedding_cache'))
             => \E t \in Tasks :
                   /\ GceInsert(t)
                   /\ Cardinality(Hashes(embedding_cache)
                                    \cup {content_hash(frame[t].text)})
                        > cache_max]_vars

\* a lookup has found its row (a row touched after its insertion) and the
\* caller goes on with that row's vector
C26_Witness ==
    \E t \in Tasks : \E c \in embedding_cache :
        /\ pc[t] \in {"st_upsert", "rc_query"}
        /\ c.content_hash = content_hash(frame[t].text)
        /\ c.created_at < c.accessed_at
        /\ frame[t].emb = Ok(Some(bytes_to_vec(c.embedding)))

\* C27: with a deterministic embedder of dimension D > 0, in every
\* interleaving of concurrent stores, every record's embedding is the
\* embedding of the record's present content.
C27_EmbeddingOfCurrentContent ==
    dims > 0 =>
        \A r \in memories :
            r.embedding = Some(vec_to_bytes(EmbedVec(r.content)))

\* one task has stored a record with an embedding while the other, inside a
\* store of another content, holds its embedding and is about to write
C27_Witness ==
    /\ dims > 0
    /\ \E t \in Tasks : \E u \in Tasks \ {t} : \E r \in memories :
          /\ pc[t] = "st_upsert"
          /\ frame[t].text # r.content
          /\ pc[u] = "ret" /\ frame[u].op = "store" /\ result[u] = Ok(Unit)
          /\ r.id = uuid /\ r.embedding.some

\* C28: for every category c, a custom one named like a built-in one
\* included, after store(k, content, c) get(k) answers category c, and
\* list(Some(c)) holds k while the list of no other category does.
C28_CategoryRoundTrip ==
    [][\A t \in Tasks, key \in Keys, category \in Categories :
          StoreUpsert(t, key, category) =>
              /\ Get(memories', key).some
              /\ Get(memories', key).val.category = category
              /\ \A c \in Categories \cup {Core} :
                    \A entries \in List(memories', Some(c)) :
                        (\E i \in 1 .. Len(entries) : entries[i].key = key)
                            <=> c = category]_vars

\* task t is inside a store or recall, before a database section or
\* waiting for the embedder
InOperation(t) == pc[t] \in {"gce_check", "gce_embed", "st_upsert", "rc_query"}

\* C29: under a fair scheduler, with embedder calls that come back and no
\* panic, a task that has returned does not hold the guard, the tasks are
\* never all waiting for a guard that is not free, and every operation a
\* task is in eventually returns.
C29_EveryOperationReturns ==
    /\ [](\A t \in Tasks : ~InOperation(t) => conn # t)
    /\ [](~(conn # 0 /\ \A t \in Tasks : InOperation(t)))
    /\ \A t \in Tasks : InOperation(t) ~> (pc[t] = "ret")

\* two operations that ran at the same time have both returned, one of
\* them a store that went through the embedder and wrote its record
C29_Witness ==
    /\ \A t \in Tasks :
          pc[t] = "ret" /\ frame[t].op \in {"store", "recall"}
    /\ memories # {}
    /\ embedding_cache # {}

\* the operation a step of the caller of a faulty run belongs to
OpOfStep ==
    IF pc[1] \in {"idle", "ret", "cancelled", "panicked"}
    THEN frame'[1].op ELSE frame[1].op

\* C30: recall, get, list, count and health_check change neither the record
\* table nor the index; get, list, count, forget and health_check call no
\* embedder and leave the cache alone; the cache changes, and the embedder
\* is called, only in a store or in a recall of a non-blank query, under an
\* embedder of dimension D > 0.
C30_FrameEffects ==
    [][/\ OpOfStep \in {"recall", "get", "list", "count", "health_check"}
             => tables' = tables
       /\ OpOfStep \in {"get", "list", "count", "forget", "health_check"}
             => /\ embedding_cache' = embedding_cache
                /\ pc'[1] \notin {"gce_check", "gce_embed"}
       /\ (embedding_cache' # embedding_cache \/ pc'[1] = "gce_embed")
             => /\ dims > 0
                /\ OpOfStep \in {"store", "recall"}
                /\ OpOfStep = "recall"
                      => \E i \in 1 .. Len(frame[1].text) :
                            frame[1].text[i] # " "]_vars

\* a list has answered the records of a table that a store filled, beside
\* a cache that holds a row
C30_Witness ==
    /\ pc[1] = "ret"
    /\ frame[1].op = "list"
    /\ result[1].ok /\ result[1].val.entries # <<>>
    /\ embedding_cache # {}
    /\ uuid > 1

====
